---- MODULE Spec2Model ----
(***************************************************************************)
(* Model of the overlapping pattern model of wfc (wfc/src/overlapping.rs)  *)
(* and of the image glue around it (wfc-image/src/lib.rs).                 *)
(***************************************************************************)
EXTENDS Integers, Sequences, FiniteSets, TLC

VARIABLES
    pc,             \* "start", "built" (an ImagePatterns exists), "queried", "generated"
    grid,           \* the input sample grid
    pattern_size,   \* the pattern size argument (a NonZeroU32)
    orientations,   \* the orientations argument (a slice of Orientation)
    pattern_table,  \* OverlappingPatterns::pattern_table
    id_grid,        \* OverlappingPatterns::id_grid
    empty_colour,   \* ImagePatterns::empty_colour
    set_colour,     \* argument of the most recent set_empty_colour call, if any
    stats,          \* the GlobalStats last returned by global_stats, if any
    retry,          \* the retry policy of generate_image_with_rng
    raw,            \* what collapse_wave_retrying returned to it
    ret,            \* what generate_image_with_rng returned
    img,            \* the last image_from_wave call and its result
    avg             \* the last weighted_average_colour query and its result

vars == <<pc, grid, pattern_size, orientations, pattern_table, id_grid,
          empty_colour, set_colour, stats, retry, raw, ret, img, avg>>

(* ------------------------------ bounds -------------------------------- *)
\* largest number of cells (width * height) of the enumerated input grids
MaxCells == 4
\* largest pattern size handed to OverlappingPatterns::new
MaxP == 2
\* largest number of compatible patterns of one wave cell
MaxCompat == 2
\* largest number of patterns whose count is cleared
MaxClears == 2

(* ------------------------------ samples ------------------------------- *)
\* Rgba<u8> samples: <<r, g, b, a>>
Red10 == <<10, 0, 0, 255>>
Red30 == <<30, 0, 0, 255>>
Palette == {Red10, Red30}

\* "no value" of an Option<PatternId> / Option<NonZeroU32>
None == -1

(* --------------------------- coord_2d / grid_2d ----------------------- *)
Coord(x, y) == [x |-> x, y |-> y]
Size(x, y) == [x |-> x, y |-> y]
CoordAdd(a, b) == Coord(a.x + b.x, a.y + b.y)

\* CoordIter::new(size): every coordinate of the size, row-major
CoordIter(size) ==
    [k \in 1..(size.x * size.y) |-> Coord((k - 1) % size.x, (k - 1) \div size.x)]

\* row-major index of a valid coordinate
CoordIndex(size, c) == c.y * size.x + c.x + 1

\* Grid::new_fn(size, |coord| rows[coord.y][coord.x])
GridNewFn(size, rows) ==
    [ size |-> size,
      data |-> [k \in 1..(size.x * size.y) |->
                   rows[CoordIter(size)[k].y + 1][CoordIter(size)[k].x + 1]] ]

\* Grid::get_tiled: wrap-addressed read
GetTiled(g, c) == g.data[CoordIndex(g.size, Coord(c.x % g.size.x, c.y % g.size.y))]

(* ------------------------------ orientation --------------------------- *)
Original == "Original"
Clockwise90 == "Clockwise90"
Clockwise180 == "Clockwise180"
Clockwise270 == "Clockwise270"
DiagonallyFlipped == "DiagonallyFlipped"
DiagonallyFlippedClockwise90 == "DiagonallyFlippedClockwise90"
DiagonallyFlippedClockwise180 == "DiagonallyFlippedClockwise180"
DiagonallyFlippedClockwise270 == "DiagonallyFlippedClockwise270"

\* orientation::ALL
ALL ==
    << Original, Clockwise90, Clockwise180, Clockwise270, DiagonallyFlipped,
       DiagonallyFlippedClockwise90, DiagonallyFlippedClockwise180,
       DiagonallyFlippedClockwise270 >>

Orientations == {ALL[k] : k \in 1..Len(ALL)}

\* Orientation::transform_coord(size, coord)
TransformCoord(o, size, c) ==
    CASE o = Original -> c
      [] o = Clockwise90 -> Coord(c.y, size.x - 1 - c.x)
      [] o = Clockwise180 -> Coord(size.x - 1 - c.x, size.y - 1 - c.y)
      [] o = Clockwise270 -> Coord(size.y - 1 - c.y, c.x)
      [] o = DiagonallyFlipped -> Coord(c.y, c.x)
      [] o = DiagonallyFlippedClockwise90 -> Coord(size.x - 1 - c.x, c.y)
      [] o = DiagonallyFlippedClockwise180 -> Coord(size.y - 1 - c.y, size.x - 1 - c.x)
      [] o = DiagonallyFlippedClockwise270 -> Coord(c.x, size.y - 1 - c.y)

\* OrientationTable::new(): no orientation has a value
OrientationTableNew == [o \in Orientations |-> None]

(* ------------------------------ tiled_slice --------------------------- *)
\* TiledGridSlice::new(grid, offset, size, orientation); the grid is borrowed
TiledGridSlice(offset, size, orientation) ==
    [offset |-> offset, size |-> size, orientation |-> orientation]

\* TiledGridSlice::get_checked(coord), for a coordinate valid in the size
GetChecked(g, s, c) ==
    GetTiled(g, CoordAdd(s.offset, TransformCoord(s.orientation, s.size, c)))

\* TiledGridSlice::iter(): the samples of the view, row-major; the view's
\* Hash and PartialEq are those of this sequence
SliceIter(g, s) ==
    [k \in 1..(s.size.x * s.size.y) |-> GetChecked(g, s, CoordIter(s.size)[k])]

(* ------------------------------ Pattern ------------------------------- *)
\* Pattern::new(id, orientation)
PatternNew(id, orientation) ==
    [id |-> id, coords |-> <<>>, count |-> 0, orientation |-> orientation]

\* Pattern::coord
PatternCoord(p) == p.coords[1]

\* Pattern::tiled_grid_slice(grid, size)
PatternTiledGridSlice(p, size) == TiledGridSlice(PatternCoord(p), size, p.orientation)

\* Pattern::clear_count
PatternClearCount(p) == [p EXCEPT !.count = 0]

\* NonZeroU32::new(n)
NonZeroU32New(n) == IF n = 0 THEN None ELSE n

(* ------------------------------ direction ----------------------------- *)
North == "North"
East == "East"
South == "South"
West == "West"
CardinalDirections == {North, East, South, West}

\* CardinalDirection::axis
Axis(d) == IF d \in {North, South} THEN "Y" ELSE "X"

\* Size::with_axis(axis, |d| d - 1)
WithAxisMinusOne(size, axis) ==
    IF axis = "X" THEN Size(size.x - 1, size.y) ELSE Size(size.x, size.y - 1)

(* ------------------------- are_patterns_compatible -------------------- *)
\* CompareOffsets with a slip: the North pair is the South pair
CompareOffsetsNorthAsSouth(d) ==
    CASE d = North -> <<Coord(0, 1), Coord(0, 0)>>
      [] d = South -> <<Coord(0, 1), Coord(0, 0)>>
      [] d = East -> <<Coord(1, 0), Coord(0, 0)>>
      [] d = West -> <<Coord(0, 0), Coord(1, 0)>>

\* CompareOffsets with a slip: the East pair is the West pair
CompareOffsetsEastAsWest(d) ==
    CASE d = North -> <<Coord(0, 0), Coord(0, 1)>>
      [] d = South -> <<Coord(0, 1), Coord(0, 0)>>
      [] d = East -> <<Coord(0, 0), Coord(1, 0)>>
      [] d = West -> <<Coord(0, 0), Coord(1, 0)>>

\* CompareOffsets with a slip: the South pair does not shift a
CompareOffsetsSouthUnshifted(d) ==
    CASE d = North -> <<Coord(0, 0), Coord(0, 1)>>
      [] d = South -> <<Coord(0, 0), Coord(0, 0)>>
      [] d = East -> <<Coord(1, 0), Coord(0, 0)>>
      [] d = West -> <<Coord(0, 0), Coord(1, 0)>>

\* the (a_offset, b_offset) pair matched on b_offset_direction
CompareOffsets(d) ==
    CASE d = North -> <<Coord(0, 0), Coord(0, 1)>>
      [] d = South -> <<Coord(0, 1), Coord(0, 0)>>
      [] d = East -> <<Coord(1, 0), Coord(0, 0)>>
      [] d = West -> <<Coord(0, 0), Coord(1, 0)>>

are_patterns_compatible(g, a, b, b_offset_direction) ==
    LET size == a.size
    IN  IF size.x = 1
        THEN TRUE
        ELSE LET compare_size == WithAxisMinusOne(size, Axis(b_offset_direction))
                 a_offset == CompareOffsets(b_offset_direction)[1]
                 b_offset == CompareOffsets(b_offset_direction)[2]
                 coords == CoordIter(compare_size)
             IN  \A k \in 1..Len(coords) :
                    GetChecked(g, a, CoordAdd(coords[k], a_offset))
                        = GetChecked(g, b, CoordAdd(coords[k], b_offset))

(* ------------------------- OverlappingPatterns::new ------------------- *)
\* state of the extraction loop before its first iteration
ExtractInit(g) ==
    [ pattern_map |-> {},
      next_id |-> 0,
      id_grid |-> [k \in 1..(g.size.x * g.size.y) |-> OrientationTableNew] ]

\* the id given to a newly allocated pattern: Pattern::new(next_id, ..)
AllocId(next_id) == next_id

\* BumpId with a slip: an id is skipped at every allocation
BumpIdSkips(next_id) == next_id + 2
\* "next_id += 1;"
BumpId(next_id) == next_id + 1

\* Occurrence with a slip: the count is set, not incremented
OccurrenceCountsOnce(pattern, offset) ==
    [pattern EXCEPT !.coords = Append(@, offset), !.count = 1]
\* "pattern.coords.push(pattern_slice.offset()); pattern.count += 1;"
Occurrence(pattern, offset) ==
    [pattern EXCEPT !.coords = Append(@, offset), !.count = @ + 1]

\* one iteration of the loop body, for one (orientation, coord)
ExtractStep(g, size, st, orientation, coord) ==
    LET pattern_slice == TiledGridSlice(coord, size, orientation)
        key == SliceIter(g, pattern_slice)
        found == {e \in st.pattern_map : e.key = key}
        vacant == found = {}
        entry == IF vacant
                 THEN PatternNew(AllocId(st.next_id), orientation)
                 ELSE (CHOOSE e \in found : TRUE).pattern
        pattern == Occurrence(entry, pattern_slice.offset)
    IN  [ pattern_map |-> (st.pattern_map \ found) \cup {[key |-> key, pattern |-> pattern]},
          next_id |-> IF vacant THEN BumpId(st.next_id) ELSE st.next_id,
          id_grid |-> [st.id_grid EXCEPT ![CoordIndex(g.size, coord)][orientation] = pattern.id] ]

\* the inner loop "for coord in CoordIter::new(grid.size())": the loop state
\* after the first n coordinates of one orientation, from the state st
RECURSIVE ExtractCoords(_, _, _, _, _)
ExtractCoords(g, size, st, orientation, n) ==
    IF n = 0
    THEN st
    ELSE ExtractStep(g, size, ExtractCoords(g, size, st, orientation, n - 1),
                     orientation, CoordIter(g.size)[n])

\* the outer loop "for &orientation in orientations.iter()": the loop state
\* after the first k orientations (next_id never decreases, and the state
\* before an orientation is complete before its coordinates are visited)
RECURSIVE ExtractLoop(_, _, _, _)
ExtractLoop(g, size, os, k) ==
    IF k = 0
    THEN ExtractInit(g)
    ELSE LET before == ExtractLoop(g, size, os, k - 1)
         IN  IF before.next_id >= 0
             THEN ExtractCoords(g, size, before, os[k], g.size.x * g.size.y)
             ELSE before

\* patterns.sort_by_key(|pattern| pattern.id), of the drained patterns
SortByKeyId(patterns) ==
    [i \in 1..Cardinality(patterns) |->
        CHOOSE p \in patterns : Cardinality({q \in patterns : q.id < p.id}) = i - 1]

\* OverlappingPatterns::new(grid, pattern_size, orientations)
OverlappingPatternsNew(g, p, os) ==
    LET size == Size(p, p)
        st == ExtractLoop(g, size, os, Len(os))
        drained == {e.pattern : e \in st.pattern_map}
    IN  [ pattern_table |-> SortByKeyId(drained),
          pattern_size |-> size,
          grid |-> g,
          id_grid |-> st.id_grid ]

(* ------------------------- OverlappingPatterns methods ---------------- *)
\* the current OverlappingPatterns value
Self == [pattern_table |-> pattern_table, pattern_size |-> Size(pattern_size, pattern_size),
         grid |-> grid, id_grid |-> id_grid]

\* OverlappingPatterns::pattern(pattern_id): PatternTable is indexed by id
PatternOf(self, pattern_id) == self.pattern_table[pattern_id + 1]

\* pattern_top_left_value with a slip: the sample at the pattern's coordinate,
\* whatever its orientation
pattern_top_left_value_unoriented(self, pattern_id) ==
    GetTiled(self.grid, PatternCoord(PatternOf(self, pattern_id)))

\* OverlappingPatterns::pattern_top_left_value
pattern_top_left_value(self, pattern_id) ==
    GetChecked(self.grid,
               PatternTiledGridSlice(PatternOf(self, pattern_id), self.pattern_size),
               Coord(0, 0))

\* OverlappingPatterns::compatible_patterns(pattern, direction)
compatible_patterns(self, pattern, direction) ==
    LET tiled_grid_slice == PatternTiledGridSlice(pattern, self.pattern_size)
        Keep(id) ==
            are_patterns_compatible(
                self.grid, tiled_grid_slice,
                PatternTiledGridSlice(PatternOf(self, id), self.pattern_size), direction)
    IN  SelectSeq([i \in 1..Len(self.pattern_table) |-> i - 1], Keep)

\* PatternWeight with a slip: every counted pattern weighs 1
PatternWeightUniform(pattern) == IF pattern.count = 0 THEN None ELSE 1
\* the weight of a pattern description
PatternWeight(pattern) == NonZeroU32New(pattern.count)

\* OverlappingPatterns::pattern_descriptions
pattern_descriptions(self) ==
    [i \in 1..Len(self.pattern_table) |->
        [ weight |-> PatternWeight(self.pattern_table[i]),
          allowed_neighbours |->
              [d \in CardinalDirections |->
                  compatible_patterns(self, self.pattern_table[i], d)] ]]

\* GlobalStats::new(pattern_descriptions): the weights and the per-direction
\* compatibility of every pattern, with the totals over the weighted patterns
RECURSIVE SumWeights(_, _)
SumWeights(ws, n) ==
    IF n = 0 THEN 0
    ELSE SumWeights(ws, n - 1) + (IF ws[n] = None THEN 0 ELSE ws[n])

GlobalStatsNew(pd) ==
    [ weight |-> [i \in 1..Len(pd) |-> pd[i].weight],
      compatibility_per_pattern |-> [i \in 1..Len(pd) |-> pd[i].allowed_neighbours],
      num_weighted_patterns |-> Cardinality({i \in 1..Len(pd) : pd[i].weight # None}),
      sum_pattern_weight |-> SumWeights([i \in 1..Len(pd) |-> pd[i].weight], Len(pd)) ]

\* OverlappingPatterns::global_stats
global_stats(self) == GlobalStatsNew(pattern_descriptions(self))

(* ------------------------------ Wave (wfc.rs) ------------------------- *)
\* A wave cell is the set of the pattern ids still compatible with it; a wave
\* is [size, cells], the cells row-major.

\* WaveCellRef::chosen_pattern_id: Ok(id) iff exactly one pattern is compatible
chosen_pattern_id(cell) ==
    IF Cardinality(cell) = 1
    THEN [ok |-> TRUE, pattern_id |-> CHOOSE id \in cell : TRUE]
    ELSE [ok |-> FALSE, pattern_id |-> None]

\* the compatible patterns of the cell that have a weight, ascending by id
WeightedCompatible(cell, gs) ==
    SelectSeq([i \in 1..Len(gs.weight) |-> i - 1],
              LAMBDA id : id \in cell /\ gs.weight[id + 1] # None)

\* WaveCellRef::enumerate_compatible_pattern_weights
enumerate_compatible_pattern_weights(cell, gs) ==
    LET weighted == WeightedCompatible(cell, gs)
    IN  IF Len(weighted) = 0
        THEN IF Cardinality(cell) = 0
             THEN [kind |-> "NoCompatiblePattern", pattern_id |-> None, iter |-> << >>]
             ELSE IF Cardinality(cell) = 1
             THEN [kind |-> "SingleCompatiblePatternWithoutWeight",
                   pattern_id |-> CHOOSE id \in cell : TRUE, iter |-> << >>]
             ELSE [kind |-> "MultipleCompatiblePatternsWithoutWeights",
                   pattern_id |-> None, iter |-> << >>]
        ELSE [kind |-> "CompatiblePatternsWithWeights", pattern_id |-> None,
              iter |-> [k \in 1..Len(weighted) |->
                           <<weighted[k], gs.weight[weighted[k] + 1]>>]]

\* WaveCellRef::sum_compatible_pattern_weight
RECURSIVE SumIterWeights(_, _)
SumIterWeights(iter, n) ==
    IF n = 0 THEN 0 ELSE SumIterWeights(iter, n - 1) + iter[n][2]

sum_compatible_pattern_weight(cell, gs) ==
    LET weighted == WeightedCompatible(cell, gs)
    IN  SumIterWeights([k \in 1..Len(weighted) |-> <<weighted[k], gs.weight[weighted[k] + 1]>>],
                       Len(weighted))

(* ------------------------------ ImagePatterns ------------------------- *)
\* ImagePatterns::image_from_wave
image_from_wave(self, empty, wave) ==
    [ size |-> wave.size,
      data |-> [k \in 1..Len(wave.cells) |->
                   LET chosen == chosen_pattern_id(wave.cells[k])
                   IN  IF chosen.ok
                       THEN pattern_top_left_value(self, chosen.pattern_id)
                       ELSE empty] ]

\* Weigh with a slip: the weight is dropped
WeighUnweighted(colour, weight) == colour
\* the map closure of weighted_average_colour: the channels times the weight
Weigh(colour, weight) ==
    <<colour[1] * weight, colour[2] * weight, colour[3] * weight, colour[4] * weight>>

\* the fold of weighted_average_colour over the first n items of the iterator
\* (u32 sums; the bounded inputs keep them far below 2^32)
RECURSIVE FoldWeighted(_, _, _)
FoldWeighted(self, iter, n) ==
    IF n = 0
    THEN <<0, 0, 0, 0>>
    ELSE LET acc == FoldWeighted(self, iter, n - 1)
             w == Weigh(pattern_top_left_value(self, iter[n][1]), iter[n][2])
         IN  <<acc[1] + w[1], acc[2] + w[2], acc[3] + w[3], acc[4] + w[4]>>

\* ImagePatterns::weighted_average_colour
weighted_average_colour(self, empty, cell, gs) ==
    LET e == enumerate_compatible_pattern_weights(cell, gs)
    IN  CASE e.kind \in {"MultipleCompatiblePatternsWithoutWeights", "NoCompatiblePattern"} ->
                empty
          [] e.kind = "SingleCompatiblePatternWithoutWeight" ->
                pattern_top_left_value(self, e.pattern_id)
          [] e.kind = "CompatiblePatternsWithWeights" ->
                LET sums == FoldWeighted(self, e.iter, Len(e.iter))
                    total_weight == sum_compatible_pattern_weight(cell, gs)
                IN  << (sums[1] \div total_weight) % 256,
                       (sums[2] \div total_weight) % 256,
                       (sums[3] \div total_weight) % 256,
                       (sums[4] \div total_weight) % 256 >>

(* ------------------------------ retry --------------------------------- *)
Forever == "Forever"
NumTimes == "NumTimes"
ParNumTimes == "ParNumTimes"
RetryPolicies == {Forever, NumTimes, ParNumTimes}

\* PropagateError
Contradiction == "Contradiction"

\* the Return of a retry policy: the wave for Forever, Result<Wave,
\* PropagateError> for NumTimes and ParNumTimes
RawWave(wave) == [kind |-> "Wave", wave |-> <<wave>>, error |-> "none"]
RawOk(wave) == [kind |-> "Ok", wave |-> <<wave>>, error |-> "none"]
RawErr(e) == [kind |-> "Err", wave |-> << >>, error |-> e]

\* ImageRetry::image_return with a slip: NumTimes and ParNumTimes drop the
\* error and return an image of nothing
ImageReturnSwallowsErr(policy, r, self, empty) ==
    IF policy = Forever
    THEN [kind |-> "Image", image |-> <<image_from_wave(self, empty, r.wave[1])>>,
          error |-> "none"]
    ELSE IF r.kind = "Ok"
    THEN [kind |-> "Ok", image |-> <<image_from_wave(self, empty, r.wave[1])>>,
          error |-> "none"]
    ELSE [kind |-> "Ok", image |-> <<[size |-> Size(0, 0), data |-> << >>]>>,
          error |-> "none"]

\* ImageRetry::image_return of Forever, NumTimes and ParNumTimes
ImageReturn(policy, r, self, empty) ==
    IF policy = Forever
    THEN [kind |-> "Image", image |-> <<image_from_wave(self, empty, r.wave[1])>>,
          error |-> "none"]
    ELSE IF r.kind = "Ok"
    THEN [kind |-> "Ok", image |-> <<image_from_wave(self, empty, r.wave[1])>>,
          error |-> "none"]
    ELSE [kind |-> "Err", image |-> << >>, error |-> r.error]

(* ------------------------------ inputs -------------------------------- *)
\* the grid of the test compatibile_patterns: [[r, b, b], [b, r, b]]
TestArray == << <<Red10, Red30, Red30>>, <<Red30, Red10, Red30>> >>
TestGrid == GridNewFn(Size(3, 2), TestArray)

GridsOfSize(w, h) == {[size |-> Size(w, h), data |-> d] : d \in [1..(w * h) -> Palette]}
BoundedGrids ==
    UNION {GridsOfSize(wh[1], wh[2]) :
              wh \in {v \in (1..MaxCells) \X (1..MaxCells) : v[1] * v[2] <= MaxCells}}
InputGrids == BoundedGrids \cup {TestGrid}

\* the orientation slices handed to OverlappingPatterns::new
OrientationLists ==
    { << >>,
      <<Original>>,
      <<Original, Clockwise90>>,
      <<Clockwise180, DiagonallyFlipped, Original>>,
      <<DiagonallyFlippedClockwise90, Clockwise270>>,
      <<DiagonallyFlippedClockwise270, DiagonallyFlippedClockwise180>>,
      <<Clockwise90, Clockwise90>>,
      ALL }

\* a 2 x 1 image of the two samples, and a uniform 4 x 4 image
TwoByOne == GridNewFn(Size(2, 1), << <<Red10, Red30>> >>)
Uniform4 == GridNewFn(Size(4, 4), [y \in 1..4 |-> [x \in 1..4 |-> Red30]])
SmallGrids == {TestGrid, TwoByOne, Uniform4}
SmallOrientationLists == { << >>, <<Original>>, <<Clockwise180, Original>> }

\* the colours handed to set_empty_colour
White == <<255, 255, 255, 255>>
EmptyColours == {White, Red30}

\* the output sizes of the waves
OutputSizes == {Size(1, 1), Size(2, 1)}

\* the cells a wave over n patterns may hold, and the waves of a size
Cells(n) == {c \in SUBSET (0..(n - 1)) : Cardinality(c) <= MaxCompat}
Waves(size, n) ==
    {[size |-> size, cells |-> cs] : cs \in [1..(size.x * size.y) -> Cells(n)]}

\* what the retry policy may return for a wave of the size
RawResults(policy, size, n) ==
    IF policy = Forever
    THEN {RawWave(w) : w \in Waves(size, n)}
    ELSE {RawOk(w) : w \in Waves(size, n)} \cup {RawErr(Contradiction)}

(* ------------------------------ actions ------------------------------- *)
\* the GlobalStats last returned by global_stats, when there is one
HasStats == stats # << >>
TheStats == stats[1]

\* the state before construction, for the given arguments
Start(g, p, os) ==
    /\ pc = "start"
    /\ grid = g
    /\ pattern_size = p
    /\ orientations = os
    /\ pattern_table = << >>
    /\ id_grid = << >>
    /\ empty_colour = << >>
    /\ set_colour = << >>
    /\ stats = << >>
    /\ retry = "none"
    /\ raw = << >>
    /\ ret = << >>
    /\ img = << >>
    /\ avg = << >>

Init ==
    \E g \in InputGrids, p \in 1..MaxP, os \in OrientationLists : Start(g, p, os)

\* ImagePatterns::new(image, pattern_size, orientations)
ImagePatternsNew ==
    /\ pc = "start"
    /\ LET op == OverlappingPatternsNew(grid, pattern_size, orientations)
       IN  /\ pattern_table' = op.pattern_table
           /\ id_grid' = op.id_grid
    /\ empty_colour' = <<0, 0, 0, 0>>
    /\ pc' = "built"
    /\ UNCHANGED <<grid, pattern_size, orientations, set_colour, stats, retry, raw, ret, img, avg>>

\* ImagePatterns::global_stats
GlobalStats ==
    /\ pc = "built"
    /\ stats' = <<global_stats(Self)>>
    /\ UNCHANGED <<pc, grid, pattern_size, orientations, pattern_table, id_grid,
                   empty_colour, set_colour, retry, raw, ret, img, avg>>

Next == ImagePatternsNew \/ GlobalStats

Spec == Init /\ [][Next]_vars

\* ImagePatterns::set_empty_colour
SetEmptyColour ==
    /\ pc = "built"
    /\ \E c \in EmptyColours :
          /\ empty_colour' = c
          /\ set_colour' = <<c>>
    /\ UNCHANGED <<pc, grid, pattern_size, orientations, pattern_table, id_grid,
                   stats, retry, raw, ret, img, avg>>

\* ImagePatterns::pattern_mut(pattern_id).clear_count()
ClearCount ==
    /\ pc = "built"
    /\ \E pattern_id \in 0..(Len(pattern_table) - 1) :
          /\ Cardinality({i \in 1..Len(pattern_table) : pattern_table[i].count = 0}
                            \cup {pattern_id + 1}) <= MaxClears
          /\ pattern_table' =
                [pattern_table EXCEPT ![pattern_id + 1] = PatternClearCount(@)]
    /\ UNCHANGED <<pc, grid, pattern_size, orientations, id_grid, empty_colour,
                   set_colour, stats, retry, raw, ret, img, avg>>

\* ImagePatterns::weighted_average_colour(cell), for a cell of a wave built
\* from the GlobalStats last returned; a run ends with its query
WeightedAverageColour ==
    /\ pc = "built"
    /\ HasStats
    /\ \E cell \in Cells(Len(pattern_table)) :
          avg' = << [ cell |-> cell,
                      weight |-> TheStats.weight,
                      empty |-> empty_colour,
                      colour |-> weighted_average_colour(Self, empty_colour, cell, TheStats) ] >>
    /\ pc' = "queried"
    /\ UNCHANGED <<grid, pattern_size, orientations, pattern_table, id_grid,
                   empty_colour, set_colour, stats, retry, raw, ret, img>>

\* ImagePatterns::image_from_wave(wave); a run ends with its query
ImageFromWave ==
    /\ pc = "built"
    /\ \E size \in OutputSizes : \E wave \in Waves(size, Len(pattern_table)) :
          img' = << [ wave |-> wave,
                      set_colour |-> set_colour,
                      image |-> image_from_wave(Self, empty_colour, wave) ] >>
    /\ pc' = "queried"
    /\ UNCHANGED <<grid, pattern_size, orientations, pattern_table, id_grid,
                   empty_colour, set_colour, stats, retry, raw, ret, avg>>

\* generate_image_with_rng(image, pattern_size, output_size, orientations,
\* wrap, forbid, retry, rng): ImagePatterns::new, collapse_wave_retrying and
\* image_return
GenerateImageWithRng ==
    /\ pc = "start"
    /\ \E policy \in RetryPolicies, output_size \in OutputSizes :
          LET op == OverlappingPatternsNew(grid, pattern_size, orientations)
              empty == <<0, 0, 0, 0>>
          IN  \E r \in RawResults(policy, output_size, Len(op.pattern_table)) :
                 /\ pattern_table' = op.pattern_table
                 /\ id_grid' = op.id_grid
                 /\ empty_colour' = empty
                 /\ retry' = policy
                 /\ raw' = <<r>>
                 /\ ret' = <<ImageReturn(policy, r, op, empty)>>
    /\ pc' = "generated"
    /\ UNCHANGED <<grid, pattern_size, orientations, set_colour, stats, img, avg>>

\* the small inputs of the specifications of the image operations
InitSmall ==
    \E g \in SmallGrids, p \in 1..MaxP, os \in SmallOrientationLists : Start(g, p, os)

\* the pattern model, its statistics and the weighted query of one cell
NextStats ==
    ImagePatternsNew \/ SetEmptyColour \/ ClearCount \/ GlobalStats \/ WeightedAverageColour

SpecStats == InitSmall /\ [][NextStats]_vars

\* materialisation of waves, directly and through generate_image_with_rng
NextImage == ImagePatternsNew \/ SetEmptyColour \/ ImageFromWave \/ GenerateImageWithRng

SpecImage == InitSmall /\ [][NextImage]_vars

(* ---------------------- the (coordinate, orientation) enumeration ----- *)
\* the pairs visited by OverlappingPatterns::new, in visiting order:
\* orientations in list order, coordinates row-major
EnumLen == Len(orientations) * grid.size.x * grid.size.y
EnumOrientation(n) == orientations[((n - 1) \div (grid.size.x * grid.size.y)) + 1]
EnumCoord(n) == CoordIter(grid.size)[((n - 1) % (grid.size.x * grid.size.y)) + 1]
\* content of the view anchored at the n-th pair
EnumContent(n) ==
    SliceIter(grid, TiledGridSlice(EnumCoord(n), Size(pattern_size, pattern_size),
                                   EnumOrientation(n)))
\* the id_grid entry of the n-th pair
EnumId(n) == id_grid[CoordIndex(grid.size, EnumCoord(n))][EnumOrientation(n)]
\* content of the tile of the pattern at table index i
TableContent(i) ==
    SliceIter(grid, PatternTiledGridSlice(pattern_table[i], Size(pattern_size, pattern_size)))

(* ------------------------------ C1 ------------------------------------ *)
\* C1: after OverlappingPatterns::new the table holds one pattern per distinct
\* tile content seen over the (coordinate, orientation) pairs: two pairs have
\* the same id iff their views have equal content, the ids are 0..N-1 without
\* gaps, are handed out in discovery order, and table index i holds id i.
C1_OnePatternPerContent ==
    pc = "built" =>
        LET n == EnumLen
            N == Len(pattern_table)
            ids == << >> \o [k \in 1..n |-> EnumId(k)]
            contents == << >> \o [k \in 1..n |-> EnumContent(k)]
        IN  /\ \A i \in 1..N : pattern_table[i].id = i - 1
            /\ {ids[k] : k \in 1..n} = 0..(N - 1)
            /\ \A k1, k2 \in 1..n : (ids[k1] = ids[k2]) <=> (contents[k1] = contents[k2])
            /\ N = Cardinality({contents[k] : k \in 1..n})
            /\ \A k \in 1..n : ids[k] <= Cardinality({ids[m] : m \in 1..(k - 1)})

\* C1 witness: an extraction over two orientations that found several patterns
\* and merged a later view into an earlier pattern
C1_Witness ==
    /\ pc = "built"
    /\ Len(orientations) >= 2
    /\ Len(pattern_table) >= 3
    /\ \E k1, k2 \in 1..EnumLen :
          /\ k1 < k2
          /\ EnumOrientation(k1) # EnumOrientation(k2)
          /\ EnumId(k1) = EnumId(k2)
          /\ \E k \in (k1 + 1)..(k2 - 1) : EnumId(k) > EnumId(k1)

(* ------------------------------ C2 ------------------------------------ *)
\* C2: after OverlappingPatterns::new, id_grid holds for every coordinate and
\* every requested orientation the id of the pattern whose tile content equals
\* the view anchored there; each pattern's count is the number of pairs
\* assigned to it, so every count is at least 1 and the counts sum to
\* width * height * number of requested orientations.
RECURSIVE SumCounts(_, _)
SumCounts(t, n) == IF n = 0 THEN 0 ELSE SumCounts(t, n - 1) + t[n].count

C2_IdsPartitionEnumeration ==
    pc = "built" =>
        LET n == EnumLen
            N == Len(pattern_table)
        IN  /\ \A k \in 1..n :
                  /\ EnumId(k) \in 0..(N - 1)
                  /\ TableContent(EnumId(k) + 1) = EnumContent(k)
            /\ \A i \in 1..N :
                  /\ pattern_table[i].count = Cardinality({k \in 1..n : EnumId(k) = i - 1})
                  /\ pattern_table[i].count >= 1
            /\ SumCounts(pattern_table, N) = grid.size.x * grid.size.y * Len(orientations)

\* C2 witness: an extraction in which one pattern collected at least three
\* pairs and another pattern exactly one
C2_Witness ==
    /\ pc = "built"
    /\ \E i, j \in 1..Len(pattern_table) :
          /\ pattern_table[i].count >= 3
          /\ pattern_table[j].count = 1
          /\ Len(pattern_table[i].coords) = pattern_table[i].count

(* ------------------------------ C3 ------------------------------------ *)
\* sample (x, y) of the tile of the pattern at table index i
TileAt(i, x, y) == TableContent(i)[y * pattern_size + x + 1]

\* the overlapping regions of two S x S tiles match, read at the fixed offsets
RegionMatches(i, j, d) ==
    LET S == pattern_size
    IN  CASE d = North ->
                \A x \in 0..(S - 1), y \in 0..(S - 2) : TileAt(i, x, y) = TileAt(j, x, y + 1)
          [] d = South ->
                \A x \in 0..(S - 1), y \in 0..(S - 2) : TileAt(i, x, y + 1) = TileAt(j, x, y)
          [] d = East ->
                \A x \in 0..(S - 2), y \in 0..(S - 1) : TileAt(i, x + 1, y) = TileAt(j, x, y)
          [] d = West ->
                \A x \in 0..(S - 2), y \in 0..(S - 1) : TileAt(i, x, y) = TileAt(j, x + 1, y)

\* C3: are_patterns_compatible(A, B, d) is true iff every sample of the
\* overlapping region matches; the region has extent S-1 along d's axis and
\* full extent on the other (empty, hence true, for S = 1), read at North:
\* A row 0 / B row 1, South: A row 1 / B row 0, East: A column 1 / B column 0,
\* West: A column 0 / B column 1.
C3_CompatibleIffRegionMatches ==
    HasStats =>
        \A i, j \in 1..Len(pattern_table) : \A d \in CardinalDirections :
            are_patterns_compatible(
                grid,
                PatternTiledGridSlice(pattern_table[i], Size(pattern_size, pattern_size)),
                PatternTiledGridSlice(pattern_table[j], Size(pattern_size, pattern_size)),
                d)
            <=> RegionMatches(i, j, d)

\* C3 witness: the case of the test compatibile_patterns: the tiles anchored
\* at (0, 0) and (1, 0) of its grid are compatible East and North, and are
\* not compatible South and West
C3_Witness ==
    /\ HasStats
    /\ grid = TestGrid
    /\ pattern_size = 2
    /\ orientations = <<Original>>
    /\ LET a == TiledGridSlice(Coord(0, 0), Size(2, 2), Original)
           b == TiledGridSlice(Coord(1, 0), Size(2, 2), Original)
       IN  /\ are_patterns_compatible(grid, a, b, East)
           /\ are_patterns_compatible(grid, a, b, North)
           /\ ~are_patterns_compatible(grid, a, b, South)
           /\ ~are_patterns_compatible(grid, a, b, West)

(* ------------------------------ C4 ------------------------------------ *)
\* the ids of the d allowed-neighbour set of the pattern at table index i
Allowed(i, d) ==
    {TheStats.compatibility_per_pattern[i][d][k] :
        k \in 1..Len(TheStats.compatibility_per_pattern[i][d])}

\* C4: in the allowed-neighbour sets of pattern_descriptions, B is in A's East
\* set iff A is in B's West set, and B is in A's North set iff A is in B's
\* South set, for all patterns A, B of one extraction.
C4_OppositeDirectionsConsistent ==
    HasStats =>
        \A i, j \in 1..Len(pattern_table) :
            /\ ((j - 1) \in Allowed(i, East)) <=> ((i - 1) \in Allowed(j, West))
            /\ ((j - 1) \in Allowed(i, North)) <=> ((i - 1) \in Allowed(j, South))

\* C4 witness: statistics in which B may sit East of A but not West of A, and
\* D may sit North of C but not South of C
C4_Witness ==
    /\ HasStats
    /\ \E i, j \in 1..Len(pattern_table) :
          /\ (j - 1) \in Allowed(i, East)
          /\ (j - 1) \notin Allowed(i, West)
    /\ \E i, j \in 1..Len(pattern_table) :
          /\ (j - 1) \in Allowed(i, North)
          /\ (j - 1) \notin Allowed(i, South)

(* ------------------------------ C10 ----------------------------------- *)
\* the coordinate one step from c in direction d, with wraparound
Step(c, d) ==
    LET delta == CASE d = North -> Coord(0, -1)
                   [] d = South -> Coord(0, 1)
                   [] d = East -> Coord(1, 0)
                   [] d = West -> Coord(-1, 0)
    IN  Coord((c.x + delta.x) % grid.size.x, (c.y + delta.y) % grid.size.y)

\* C10: the input is a legal tiling of its patterns: with Original requested,
\* for every coordinate p and direction d the pattern recorded at p+d for
\* Original is in the d allowed-neighbour set of the pattern recorded at p;
\* hence every pattern with an Original occurrence has a non-empty
\* allowed-neighbour set in each direction.
C10_InputIsLegalTiling ==
    (HasStats /\ \E k \in 1..Len(orientations) : orientations[k] = Original) =>
        \A n \in 1..(grid.size.x * grid.size.y) : \A d \in CardinalDirections :
            LET p == CoordIter(grid.size)[n]
                here == id_grid[n][Original]
                there == id_grid[CoordIndex(grid.size, Step(p, d))][Original]
            IN  /\ there \in Allowed(here + 1, d)
                /\ Allowed(here + 1, d) # {}

\* C10 witness: Original requested after another orientation, several
\* patterns, and a pattern that does not allow every pattern as a neighbour
C10_Witness ==
    /\ HasStats
    /\ Len(orientations) >= 2
    /\ orientations[1] # Original
    /\ \E k \in 1..Len(orientations) : orientations[k] = Original
    /\ pattern_size >= 2
    /\ \E i \in 1..Len(pattern_table) : \E d \in CardinalDirections :
          /\ Cardinality(Allowed(i, d)) < Len(pattern_table)
          /\ \E n \in 1..(grid.size.x * grid.size.y) : id_grid[n][Original] = i - 1

(* ------------------------------ C5 ------------------------------------ *)
\* the first pair of the enumeration that was given the pattern id
FirstSeen(id) ==
    CHOOSE k \in 1..EnumLen :
        /\ EnumId(k) = id
        /\ \A m \in 1..(k - 1) : EnumId(m) # id

\* the top-left sample of the first-seen occurrence of the pattern
FirstSeenTopLeft(id) == EnumContent(FirstSeen(id))[1]

\* sum over the ids below n of the set of channel ch times the weight,
\* and of the weights
RECURSIVE WeightedChannelSum(_, _, _, _, _)
WeightedChannelSum(ids, weight, tops, ch, n) ==
    IF n = 0 THEN 0
    ELSE WeightedChannelSum(ids, weight, tops, ch, n - 1)
         + (IF (n - 1) \in ids THEN tops[n][ch] * weight[n] ELSE 0)

RECURSIVE WeightSum(_, _, _)
WeightSum(ids, weight, n) ==
    IF n = 0 THEN 0
    ELSE WeightSum(ids, weight, n - 1) + (IF (n - 1) \in ids THEN weight[n] ELSE 0)

\* C5: weighted_average_colour follows the four-case policy: no compatible
\* pattern gives the fallback colour; exactly one compatible pattern without
\* weights gives that pattern's top-left sample; several without weights give
\* the fallback colour; compatible patterns with weights give, per channel,
\* the sum of channel value times weight divided with truncation by the sum
\* of the weights.
C5_WeightedAverageFourCases ==
    avg # << >> =>
        LET q == avg[1]
            N == Len(q.weight)
            weighted == {id \in q.cell : q.weight[id + 1] # None}
            \* the top-left sample of every pattern, by table index
            tops == << >> \o [i \in 1..N |-> FirstSeenTopLeft(i - 1)]
        IN  /\ q.cell = {} => q.colour = q.empty
            /\ (weighted = {} /\ Cardinality(q.cell) = 1) =>
                    \A id \in q.cell : q.colour = tops[id + 1]
            /\ (weighted = {} /\ Cardinality(q.cell) > 1) => q.colour = q.empty
            /\ weighted # {} =>
                    \A ch \in 1..4 :
                        LET sum == WeightedChannelSum(weighted, q.weight, tops, ch, N)
                            total == WeightSum(weighted, q.weight, N)
                        IN  /\ q.colour[ch] * total <= sum
                            /\ sum < (q.colour[ch] + 1) * total
                            /\ \A one \in weighted :
                                  (\A id \in weighted : tops[id + 1][ch] = tops[one + 1][ch])
                                      => q.colour[ch] = tops[one + 1][ch]

\* C5 witness: the colours (10,0,0,255) and (30,0,0,255), each with weight 1,
\* average to red 20 with the other channels unchanged
C5_Witness ==
    /\ avg # << >>
    /\ Cardinality(avg[1].cell) = 2
    /\ \A id \in avg[1].cell : avg[1].weight[id + 1] = 1
    /\ {FirstSeenTopLeft(id) : id \in avg[1].cell} = {Red10, Red30}
    /\ avg[1].colour = <<20, 0, 0, 255>>

(* ------------------------------ C6 ------------------------------------ *)
\* C6: image_from_wave returns an image of the size of the wave grid; a cell
\* with a committed pattern id holds the top-left sample of that pattern's
\* first-seen occurrence under its orientation, any other cell the fallback
\* colour, which is (0,0,0,0) unless the most recent set_empty_colour call
\* set another one; the call leaves the pattern model alone.
C6_ImageHolds ==
    img # << >> =>
        LET r == img[1]
            fallback == IF r.set_colour = << >> THEN <<0, 0, 0, 0>> ELSE r.set_colour[1]
        IN  /\ r.image.size = r.wave.size
            /\ Len(r.image.data) = r.wave.size.x * r.wave.size.y
            /\ \A k \in 1..Len(r.image.data) :
                  IF Cardinality(r.wave.cells[k]) = 1
                  THEN \A id \in r.wave.cells[k] : r.image.data[k] = FirstSeenTopLeft(id)
                  ELSE r.image.data[k] = fallback

C6_ImageFromWave ==
    /\ []C6_ImageHolds
    /\ [][img' # img => UNCHANGED <<grid, pattern_size, pattern_table, id_grid, empty_colour>>]_vars

\* C6 witness: an image with a committed cell whose pattern was first seen
\* under Clockwise180 and whose top-left sample is not the sample at its
\* coordinate, beside an uncommitted cell that holds a colour given to
\* set_empty_colour
C6_Witness ==
    /\ img # << >>
    /\ img[1].set_colour = <<White>>
    /\ img[1].wave.size = Size(2, 1)
    /\ Cardinality(img[1].wave.cells[2]) = 2
    /\ img[1].image.data[2] = White
    /\ \E id \in img[1].wave.cells[1] :
          /\ img[1].wave.cells[1] = {id}
          /\ pattern_table[id + 1].orientation = Clockwise180
          /\ img[1].image.data[1] # GetTiled(grid, PatternCoord(pattern_table[id + 1]))

(* ------------------------------ C7 ------------------------------------ *)
\* a pattern size larger than the input grid, or no orientation
Malformed ==
    \/ pattern_size > grid.size.x
    \/ pattern_size > grid.size.y
    \/ orientations = << >>

\* C7: malformed input (a pattern size larger than the input grid, or an
\* empty orientation set) is rejected before any extraction work begins: no
\* pattern model is built from it and no image is generated from it.
C7_MalformedInputRejected == Malformed => pc \notin {"built", "generated"}

(* ------------------------------ C8 ------------------------------------ *)
\* C8: generate_image_with_rng adapts the raw result of the retry policy:
\* under Forever it returns image_from_wave of the returned wave; under
\* NumTimes and ParNumTimes it returns Err(e) exactly when the policy returned
\* Err(e) and otherwise Ok(image_from_wave(wave)); the pattern model is the
\* one built from the arguments and is the one used for materialisation.
C8_ImageReturnAdaptsRaw ==
    pc = "generated" =>
        LET r == raw[1]
            o == ret[1]
            built == OverlappingPatternsNew(grid, pattern_size, orientations)
            Materialised(w) ==
                [ size |-> w.size,
                  data |-> [k \in 1..Len(w.cells) |->
                               IF Cardinality(w.cells[k]) = 1
                               THEN FirstSeenTopLeft(CHOOSE id \in w.cells[k] : TRUE)
                               ELSE <<0, 0, 0, 0>>] ]
        IN  /\ pattern_table = built.pattern_table
            /\ id_grid = built.id_grid
            /\ retry = Forever =>
                  /\ r.kind = "Wave"
                  /\ o.kind = "Image"
                  /\ o.image = <<Materialised(r.wave[1])>>
            /\ retry \in {NumTimes, ParNumTimes} =>
                  /\ (o.kind = "Err") <=> (r.kind = "Err")
                  /\ r.kind = "Err" => (o.error = r.error /\ o.image = << >>)
                  /\ r.kind = "Ok" =>
                        (o.kind = "Ok" /\ o.image = <<Materialised(r.wave[1])>>)

\* C8 witness: NumTimes ended with a contradiction and generate_image_with_rng
\* returned that error
C8_Witness ==
    /\ pc = "generated"
    /\ retry = NumTimes
    /\ raw[1].kind = "Err"
    /\ ret[1].kind = "Err"
    /\ ret[1].error = Contradiction
    /\ Len(pattern_table) >= 2

(* ------------------------------ C9 ------------------------------------ *)
\* number of pairs of the enumeration given to the pattern at table index i
ObservedFrequency(i) == Cardinality({k \in 1..EnumLen : EnumId(k) = i - 1})

\* C9 as claimed: after construction and any clear_count calls, global_stats
\* supplies for every pattern a present weight equal to its observed
\* occurrence frequency in the input.
C9_WeightAlwaysPresent ==
    HasStats =>
        \A i \in 1..Len(TheStats.weight) :
            /\ TheStats.weight[i] # None
            /\ TheStats.weight[i] = ObservedFrequency(i)

\* C9 amended: global_stats supplies for every pattern whose count was not
\* cleared a present weight equal to its observed occurrence frequency, and
\* an absent weight for every pattern whose count clear_count has cleared; a
\* count changes only by clear_count setting it to 0.
C9_WeightPresentUnlessCleared ==
    /\ [][stats' # stats =>
            \A i \in 1..Len(pattern_table) :
                stats'[1].weight[i] =
                    IF pattern_table[i].count = 0 THEN None ELSE ObservedFrequency(i)]_vars
    /\ [][pc = "built" =>
            \A i \in 1..Len(pattern_table) :
                /\ pattern_table'[i].count \in {0, ObservedFrequency(i)}
                /\ pattern_table[i].count = 0 => pattern_table'[i].count = 0]_vars

\* C9 witness: statistics taken after a clear_count, with an absent weight for
\* the cleared pattern and a weight of at least 2 for another
C9_Witness ==
    /\ HasStats
    /\ \E i, j \in 1..Len(pattern_table) :
          /\ pattern_table[i].count = 0
          /\ TheStats.weight[i] = None
          /\ TheStats.weight[j] >= 2

====
